---- MODULE Spec2Model ----
(***************************************************************************)
(* State-machine model of scripts/prompt_evolution.py: the command-line    *)
(* entry point main(), the constructor PromptEvolution.__init__ and the    *)
(* evolutionary loop PromptEvolution.evolve() with the helpers it calls.   *)
(*                                                                         *)
(* Scores are kept in thousandths (0.40 is 400, 1.0 is 1000), so that      *)
(* every score the program computes is an integer of the model.  A prompt  *)
(* text is kept as its derivation ("SEED", "LLMGEN~rev", and "SEED~var("   *)
(* with the strategies a local variation drew).  Python's None is NoPrompt *)
(* for best_prompt and "None" for a parent.                                *)
(***************************************************************************)
EXTENDS Integers, Sequences, FiniteSets, TLC

\* ------------------------------------------------------------------ bounds
MaxPop  == 4    \* largest --population drawn
MaxGen  == 3    \* largest --iterations drawn
MaxWork == 8    \* runs drawn have population * iterations <= MaxWork
MaxTaskLen == 6 \* longest --task drawn for the constructor alone
MaxReplyLen == 6 \* longest judge reply, in tokens, drawn for the judge alone
MaxWords == 2
MaxCount == 2   \* largest num_mutations of a direct generate_mutations call

\* ------------------------------------------------------------ basic values
NoPrompt == <<>>
Some(v)  == <<v>>
Max2(a, b) == IF a >= b THEN a ELSE b
Min2(a, b) == IF a <= b THEN a ELSE b

Whitespace == {" ", "\t", "\n"}

\* Task descriptions drawn for --task, as sequences of characters.
Tasks ==
  { <<>>,
    <<" ", " ", " ">>,
    <<" ", "\t", " ", "\n", " ", " ">>,
    <<"a", "b", "c">>,
    <<" ", "s", "u", "m", " ", "u", "p", " ">> }

\* Every task description of at most MaxTaskLen characters over a blank and
\* a letter, drawn where the constructor is checked on its own.
CtorTasks == UNION {[1..n -> {" ", "a"}] : n \in 0..MaxTaskLen}

\* Seed texts drawn for --initial-prompt ("" is no seed).
SeedTexts == {"", "SEED"}

\* Integers a judge reply can carry after "SCORE:" (\d+ matches no sign).
JudgeInts == {0, 40, 101}

\* str(n): the decimal digits of n.
RECURSIVE Digits(_)
Digits(n) ==
  IF n < 10 THEN <<ToString(n)>> ELSE Digits(n \div 10) \o <<ToString(n % 10)>>

\* Judge reply texts drawn in the runs, as sequences of tokens: "SCORE:" is
\* the literal of the pattern of line 494, every other token one character.
\* One reply has no marker, the others carry "SCORE: <n>".
JudgeTexts == {<<"x">>} \cup {<<"SCORE:", " ">> \o Digits(n) : n \in JudgeInts}

\* Every judge reply of at most MaxReplyLen tokens over the literal, a blank,
\* two digits and a letter, drawn where the judge is checked on its own.
ReplyTexts ==
  UNION {[1..n -> {"SCORE:", " ", "0", "1", "x"}] : n \in 0..MaxReplyLen}

\* line 418: max(0.0, min(1.0, score))
Clamp01(score) == Max2(0, Min2(1000, score))

\* A mutant of RawScore: no base score.
RawScoreNoBase(f, jitter) ==
  (IF f.title THEN 50 ELSE 0)
    + (IF f.instructions THEN 100 ELSE 0)
    + (IF f.examples THEN 100 ELSE 0)
    + (IF f.paragraphs THEN 50 ELSE 0)
    + f.config_count * 20
    + jitter

\* lines 390-415: the score before the clamp, in thousandths.
RawScore(f, jitter) ==
  500 + (IF f.title THEN 50 ELSE 0)
      + (IF f.instructions THEN 100 ELSE 0)
      + (IF f.examples THEN 100 ELSE 0)
      + (IF f.paragraphs THEN 50 ELSE 0)
      + f.config_count * 20
      + jitter

\* _simulate_evaluation, lines 390-418, on the features of a text: a leading
\* "#", an instruction indicator, an example marker or fence, two "\n\n",
\* the number of configuration phrases; jitter is random.uniform(-0.1, 0.1).
SimulatedScore(f, jitter) == Clamp01(RawScore(f, jitter))

\* A text with none of the features, and a text with all of them.
PlainText == [title |-> FALSE, instructions |-> FALSE, examples |-> FALSE,
              paragraphs |-> FALSE, config_count |-> 0]
RichText  == [title |-> TRUE, instructions |-> TRUE, examples |-> TRUE,
              paragraphs |-> TRUE, config_count |-> 4]

\* Results _simulate_evaluation produces in the runs: the ends of its range,
\* 0.5 - 0.1 and 0.5 + 0.05 + 0.1 + 0.1 + 0.05 + 4 * 0.02 + 0.1.
SimScores == {SimulatedScore(PlainText, -100), SimulatedScore(RichText, 100)}

\* The sample random.sample(MUTATION_STRATEGIES, k = 3) drawn in the runs.
Samples == { <<"add_examples", "refine_instructions", "enhance_clarity">> }

\* lines 57-66
MUTATION_STRATEGIES ==
  <<"add_examples", "refine_instructions", "restructure_prompt",
    "add_constraints", "enhance_clarity", "optimize_length",
    "improve_output_format", "strengthen_role_definition">>

\* Samples drawn where generate_mutations is checked on its own: one, the
\* same strategies in another order, and three other strategies.
MutSamples ==
  Samples \cup { <<"enhance_clarity", "refine_instructions", "add_examples">>,
                 <<"restructure_prompt", "add_constraints", "optimize_length">> }

MutDraws == [inner : MutSamples, recorded : MutSamples]

\* The samples one mutation draws: inside _create_variation (line 245) and,
\* independently, in generate_mutations for the record (line 536).
SampleDraws == [inner : Samples, recorded : Samples]

Artifacts == <<"best_prompt", "evolution_data", "evolution_report">>

\* ------------------------------------------------------------------- state
VARIABLES
  args,                      \* argparse namespace of main()
  OPENAI_AVAILABLE,          \* module flag, line 22/26
  PROMPT_ANALYZER_AVAILABLE, \* module flag, line 37/39
  api,                       \* the hosted model service in this run: "up" | "down"
  pc,                        \* position in main()/evolve()
  exception,                 \* exception that left main(), or "None"
  attrs,                     \* attributes set on the PromptEvolution object
  task_description, initial_prompt, population_size, max_iterations,
  llm_client, prompt_analyzer,
  current_generation, population, best_prompt, best_score, evolution_history,
  cursor,                    \* index of the evaluation loop of line 745
  results,                   \* the dictionary evolve() returns
  output_dir_exists, files,  \* the output location
  nextOid,                   \* identity of the next Variant object created
  registry,                  \* per Variant object: id, evaluator calls, first score
  scoredBy,                  \* strategies that have produced a stored score
  extCalls,                  \* kinds of external-capability calls made
  lastBuild,                 \* composition of the last create_next_generation
  judge_reply,               \* reply text of the judge in a direct evaluation
  judge_result,              \* what that evaluation returned
  mutation_call,             \* arguments of a direct generate_mutations call
  mutation_result,           \* what that call returned
  sim_call,                  \* text and jitter of a direct _simulate_evaluation call
  sim_result                 \* its score before and after the clamp

cfgVars  == <<args, OPENAI_AVAILABLE, PROMPT_ANALYZER_AVAILABLE, api>>
objVars  == <<attrs, task_description, initial_prompt, population_size,
              max_iterations, llm_client, prompt_analyzer>>
runVars  == <<current_generation, population, best_prompt, best_score,
              evolution_history, cursor, results>>
fsVars   == <<output_dir_exists, files>>
obsVars  == <<nextOid, registry, scoredBy, extCalls, lastBuild>>
probeVars == <<judge_reply, judge_result, mutation_call, mutation_result,
               sim_call, sim_result>>
vars     == <<cfgVars, pc, exception, objVars, runVars, fsVars, obsVars, probeVars>>

\* --------------------------------------------------------------- __init__
RECURSIVE LStrip(_)
LStrip(s) == IF s # <<>> /\ Head(s) \in Whitespace THEN LStrip(Tail(s)) ELSE s

RECURSIVE RStrip(_)
RStrip(s) ==
  IF s # <<>> /\ s[Len(s)] \in Whitespace THEN RStrip(SubSeq(s, 1, Len(s) - 1)) ELSE s

\* str.strip()
Strip(s) == RStrip(LStrip(s))

\* A mutant of TaskRejected: only a description that strips to nothing is
\* rejected.
TaskRejectedBlankOnly(t) == Len(t) = 0 \/ Len(Strip(t)) < 1

\* A mutant of TaskRejected: the length test without the strip.
TaskRejectedNoStrip(t) == Len(t) = 0 \/ Len(t) < 5

\* line 93: not task_description or len(task_description.strip()) < 5
TaskRejected(t) == Len(t) = 0 \/ Len(Strip(t)) < 5

\* lines 117-125, for the model "gpt-4": model.startswith("gpt-") holds.
LlmClientFor(openai) == IF openai THEN "openai" ELSE "None"

\* lines 130-132
AnalyzerFor(available) == IF available THEN "PromptAnalyzer" ELSE "None"

AllAttrs == {"initial_prompt", "task_description", "output_dir", "model",
             "population_size", "max_iterations", "evaluation_samples", "verbose",
             "api_key", "current_generation", "population", "best_prompt",
             "best_score", "evolution_history", "llm_client", "prompt_analyzer"}

\* The process before main() has run: no object, nothing written.
Unstarted ==
  /\ pc = "main"
  /\ exception = "None"
  /\ attrs = {}
  /\ task_description = <<>>
  /\ initial_prompt = ""
  /\ population_size = 0
  /\ max_iterations = 0
  /\ llm_client = "None"
  /\ prompt_analyzer = "None"
  /\ current_generation = 0
  /\ population = <<>>
  /\ best_prompt = NoPrompt
  /\ best_score = 0
  /\ evolution_history = <<>>
  /\ cursor = 0
  /\ results = NoPrompt
  /\ output_dir_exists = FALSE
  /\ files = [a \in {Artifacts[k] : k \in 1..Len(Artifacts)} |-> "absent"]
  /\ nextOid = 1
  /\ registry = <<>>
  /\ scoredBy = {}
  /\ extCalls = {}
  /\ lastBuild = [elite |-> 0, offspring |-> 0, fresh |-> 0]
  /\ judge_result = <<>>
  /\ mutation_call = <<>>
  /\ mutation_result = <<>>
  /\ sim_call = <<>>
  /\ sim_result = <<>>

Init ==
  /\ args \in [task : Tasks, initial_prompt : SeedTexts,
               population : 1..MaxPop, iterations : 1..MaxGen,
               simulate : BOOLEAN]
  /\ args.population * args.iterations <= MaxWork
  /\ OPENAI_AVAILABLE \in BOOLEAN
  /\ PROMPT_ANALYZER_AVAILABLE \in BOOLEAN
  /\ api \in {"up", "down"}
  /\ judge_reply = <<>>
  /\ Unstarted

\* main(), lines 863-899, and the constructor it calls, lines 92-132.
\* With --model gpt-4 the checks of lines 872-887 set args.simulate exactly
\* when the openai library is missing; the flag is not passed on.
Main ==
  /\ pc = "main"
  /\ args' = [args EXCEPT !.simulate = args.simulate \/ ~OPENAI_AVAILABLE]
  /\ IF TaskRejected(args.task)
       THEN /\ pc' = "raised"
            /\ exception' = "ValueError"
            /\ UNCHANGED <<objVars, output_dir_exists>>
       ELSE /\ pc' = "constructed"
            /\ exception' = "None"
            /\ attrs' = AllAttrs
            /\ task_description' = args.task
            /\ initial_prompt' = args.initial_prompt
            /\ population_size' = args.population
            /\ max_iterations' = args.iterations
            /\ output_dir_exists' = TRUE
            /\ llm_client' = LlmClientFor(OPENAI_AVAILABLE)
            /\ prompt_analyzer' = AnalyzerFor(PROMPT_ANALYZER_AVAILABLE)
  /\ UNCHANGED <<OPENAI_AVAILABLE, PROMPT_ANALYZER_AVAILABLE, api, runVars,
                 files, obsVars, probeVars>>

\* ------------------------------------------------------- text generation
\* The template _create_basic_prompt picks with random.choice (lines 188-229).
Templates == {"TEMPLATE"}

\* The strategies of a sample, joined.
RECURSIVE Joined(_)
Joined(sample) ==
  IF sample = <<>> THEN ""
  ELSE IF Len(sample) = 1 THEN sample[1]
  ELSE sample[1] \o "+" \o Joined(Tail(sample))

\* _create_variation, lines 231-283: the text derived from `prompt` by the
\* strategies `mutations` that line 245 sampled.  Nothing but the text is
\* returned (line 283).
CreateVariation(prompt, mutations) == prompt \o "~var(" \o Joined(mutations) \o ")"

\* _generate_prompt_with_llm, lines 285-361, called with a client set: the
\* reply of the service, or a template when the request raises (line 357).
GeneratePromptWithLlm(service) ==
  IF service = "up" THEN {"LLMGEN"} ELSE Templates

\* A mutant of MutateWithLlm: a failed request hands the parent text back.
MutateWithLlmKeepsParent(prompt, service, mutations) ==
  IF service = "up" THEN prompt \o "~rev" ELSE prompt

\* _mutate_with_llm, lines 552-677: the revision the service returns, or a
\* local variation when the critique request or the revision request raises
\* (lines 675-677).  service is "up", "down" (every request raises) or
\* "revision_down" (the critique is answered, the revision request raises).
MutateWithLlm(prompt, service, mutations) ==
  IF service = "up" THEN prompt \o "~rev" ELSE CreateVariation(prompt, mutations)

\* External requests _mutate_with_llm makes: the revision request is reached
\* only if the critique request returned.
MutateCalls(service) ==
  IF service = "down" THEN {"critique"} ELSE {"critique", "revise"}

Variant(oid, id, prompt, generation, parent, mutations) ==
  [oid |-> oid, id |-> id, prompt |-> prompt, score |-> 0,
   generation |-> generation, parent |-> parent, mutations |-> mutations]

\* A mutant of InitialFillTexts: the client is not looked at.
InitialFillTextsLocalOnly(seed, client, service) ==
  IF seed # "" THEN {CreateVariation(seed, s) : s \in Samples} ELSE Templates

\* The text of one filled slot of generate_initial_population, lines 157-165.
InitialFillTexts(seed, client, service) ==
  IF client # "None" THEN GeneratePromptWithLlm(service)
  ELSE IF seed # "" THEN {CreateVariation(seed, s) : s \in Samples}
  ELSE Templates

\* A mutant of InitialPopulation: the seed slot holds a variation of the seed.
InitialPopulationSeedVaried(seed, size, firstOid, texts) ==
  [k \in 1..size |->
     IF seed # "" /\ k = 1
       THEN Variant(firstOid, "init-0", seed \o "~var()", 0, "None", <<>>)
       ELSE Variant(firstOid + k - 1, "init-" \o ToString(k - 1), texts[k], 0,
                    "None", <<"initial_generation">>)]

\* generate_initial_population, lines 134-177.  texts[k] is the text drawn
\* for slot k; slot k of the list carries len(population) = k - 1 in its id.
InitialPopulation(seed, size, firstOid, texts) ==
  [k \in 1..size |->
     IF seed # "" /\ k = 1
       THEN Variant(firstOid, "init-0", seed, 0, "None", <<>>)
       ELSE Variant(firstOid + k - 1, "init-" \o ToString(k - 1), texts[k], 0,
                    "None", <<"initial_generation">>)]

\* Slots of generate_initial_population that the while loop of line 156 fills.
InitialFillCount(seed, size) == IF seed # "" THEN size - 1 ELSE size

\* Registry entries of the newly created objects `pop`, of which the first
\* `kept` become members of the population of generation `joining`.
Registered(pop, kind, kept, joining) ==
  [k \in 1..Len(pop) |->
     [id |-> pop[k].id, evals |-> 0, first |-> -1, seen |-> "", tried |-> "None",
      kind |-> kind, generation |-> pop[k].generation, parent |-> pop[k].parent,
      joined |-> IF k <= kept THEN joining ELSE 0]]

\* evolve(), lines 732-739: the initial population and the first loop header.
StartEvolve ==
  /\ pc = "constructed"
  /\ \E texts \in [1..population_size ->
                     InitialFillTexts(initial_prompt, llm_client, api)] :
       LET pop == InitialPopulation(initial_prompt, population_size, nextOid, texts)
       IN /\ population' = pop
          /\ registry' = registry \o Registered(pop, "initial", Len(pop), 1)
          /\ nextOid' = nextOid + Len(pop)
  /\ extCalls' = IF llm_client # "None"
                    /\ InitialFillCount(initial_prompt, population_size) > 0
                   THEN extCalls \cup {"generate"} ELSE extCalls
  /\ current_generation' = 1
  /\ cursor' = 1
  /\ pc' = "evaluate"
  /\ UNCHANGED <<cfgVars, exception, objVars, best_prompt, best_score,
                 evolution_history, results, fsVars, scoredBy, lastBuild,
                 probeVars>>

\* ------------------------------------------------------------- evaluation
Scored(score, by, calls) ==
  [raised |-> FALSE, error |-> "None", score |-> score, by |-> by, calls |-> calls]
Failed(error, calls) ==
  [raised |-> TRUE, error |-> error, score |-> 0, by |-> "None", calls |-> calls]

\* ---------------------------------------------- the text a score is read from
Uppers ==
  <<"A", "B", "C", "D", "E", "F", "G", "H", "I", "J", "K", "L", "M", "N",
    "O", "P", "Q", "R", "S", "T", "U", "V", "W", "X", "Y", "Z">>
Lowers ==
  <<"a", "b", "c", "d", "e", "f", "g", "h", "i", "j", "k", "l", "m", "n",
    "o", "p", "q", "r", "s", "t", "u", "v", "w", "x", "y", "z">>

\* str.lower() of one character
LowerChar(c) ==
  IF \E k \in 1..Len(Uppers) : Uppers[k] = c
    THEN Lowers[CHOOSE k \in 1..Len(Uppers) : Uppers[k] = c]
    ELSE c

\* str.lower()
Lower(s) == [k \in 1..Len(s) |-> LowerChar(s[k])]

\* pat in s
Contains(s, pat) ==
  \E i \in 1..(Len(s) - Len(pat) + 1) : SubSeq(s, i, i + Len(pat) - 1) = pat

\* s.count(pat): occurrences that do not overlap, found from the left
RECURSIVE CountFrom(_, _, _)
CountFrom(s, pat, i) ==
  IF i + Len(pat) - 1 > Len(s) THEN 0
  ELSE IF SubSeq(s, i, i + Len(pat) - 1) = pat
         THEN 1 + CountFrom(s, pat, i + Len(pat))
         ELSE CountFrom(s, pat, i + 1)

\* line 397
instruction_indicators ==
  { <<"y", "o", "u", " ", "s", "h", "o", "u", "l", "d">>,
    <<"y", "o", "u", "r", " ", "t", "a", "s", "k">>,
    <<"p", "l", "e", "a", "s", "e">>,
    <<"f", "o", "l", "l", "o", "w", " ", "t", "h", "e", "s", "e">>,
    <<"i", "n", "s", "t", "r", "u", "c", "t", "i", "o", "n", "s">> }

\* line 410
config_options ==
  { <<"r", "e", "s", "e", "t">>,
    <<"n", "o", " ", "q", "u", "o", "t", "e", "s">>,
    <<"b", "e", " ", "c", "o", "n", "c", "i", "s", "e">>,
    <<"s", "t", "e", "p", " ", "b", "y", " ", "s", "t", "e", "p">> }

\* The character U+0060, which a string of this language cannot hold.
Backtick == "GRAVE"

\* line 402
ExampleWord == <<"e", "x", "a", "m", "p", "l", "e">>
Fence == <<Backtick, Backtick, Backtick>>
ParagraphBreak == <<"\n", "\n">>

\* A mutant of FeaturesOf: the words are looked for in the text as written.
FeaturesOfCaseSensitive(prompt) ==
  [title |-> Strip(prompt) # <<>> /\ Head(Strip(prompt)) = "#",
   instructions |-> \E ind \in instruction_indicators : Contains(prompt, ind),
   examples |-> Contains(prompt, ExampleWord) \/ Contains(prompt, Fence),
   paragraphs |-> CountFrom(prompt, ParagraphBreak, 1) >= 2,
   config_count |-> Cardinality({opt \in config_options : Contains(prompt, opt)})]

\* _simulate_evaluation, lines 392-412: what the score of a text depends on.
FeaturesOf(prompt) ==
  LET lowered == Lower(prompt)
  IN [title |-> Strip(prompt) # <<>> /\ Head(Strip(prompt)) = "#",
      instructions |-> \E ind \in instruction_indicators : Contains(lowered, ind),
      examples |-> Contains(lowered, ExampleWord) \/ Contains(prompt, Fence),
      paragraphs |-> CountFrom(prompt, ParagraphBreak, 1) >= 2,
      config_count |->
        Cardinality({opt \in config_options : Contains(lowered, opt)})]

\* Pieces the texts of a direct evaluation begin with.
SimWords ==
  { <<"#">>, <<" ">>, <<"\n">>, <<"\n", "\n">>, <<"x">>, <<Backtick, Backtick>>,
    <<Backtick, Backtick, Backtick>>,
    <<"P", "l", "e", "a", "s", "e">>,
    <<"E", "x", "a", "m", "p", "l", "e">>,
    <<"r", "e", "s", "e", "t">>,
    <<"N", "o", " ", "Q", "u", "o", "t", "e", "s">> }

\* What follows them: nothing, a fenced block, the four configuration
\* phrases, and a body in the manner of the templates of lines 199-210.
SimTails ==
  { <<>>,
    <<"\n", Backtick, Backtick, Backtick, "\n", "x", "\n", Backtick,
      Backtick, Backtick>>,
    <<" ", "r", "e", "s", "e", "t", ",", " ", "n", "o", " ", "q", "u", "o",
      "t", "e", "s", ",", " ", "B", "e", " ", "c", "o", "n", "c", "i",
      "s", "e", ",", " ", "s", "t", "e", "p", " ", "b", "y", " ", "s",
      "t", "e", "p">>,
    <<"\n", "\n", "r", "e", "s", "e", "t", ",", " ", "n", "o", " ", "q", "u",
      "o", "t", "e", "s", ",", " ", "b", "e", " ", "c", "o", "n", "c",
      "i", "s", "e", ",", " ", "s", "t", "e", "p", " ", "b", "y", " ",
      "s", "t", "e", "p", "\n", "\n", "Y", "o", "u", "r", " ", "t", "a",
      "s", "k", " ", "i", "s", " ", "t", "o", " ", "s", "u", "m", " ",
      "u", "p", ".", "\n", "\n", "E", "x", "a", "m", "p", "l", "e", ":",
      "\n", Backtick, Backtick, Backtick, "\n", "x", "\n", Backtick,
      Backtick, Backtick>> }

RECURSIVE Flatten(_)
Flatten(ws) == IF ws = <<>> THEN <<>> ELSE Head(ws) \o Flatten(Tail(ws))

SimTexts ==
  { Flatten(ws) \o tail :
      ws \in UNION {[1..n -> SimWords] : n \in 0..MaxWords}, tail \in SimTails }

\* Values drawn for random.uniform(-0.1, 0.1), line 415.
Jitters == {-100, 0, 100}

\* _simulate_evaluation, lines 380-418.
SimulateEvaluation(prompt, calls) ==
  {Scored(s, "simulated", calls) : s \in SimScores}

DigitChars == {ToString(d) : d \in 0..9}

\* int() of one decimal digit
DigitValue(c) == CHOOSE d \in 0..9 : ToString(d) = c

\* int(score_match.group(1)), line 497, of a run of decimal digits
RECURSIVE IntOf(_)
IntOf(ds) ==
  IF ds = <<>> THEN 0
  ELSE IntOf(SubSeq(ds, 1, Len(ds) - 1)) * 10 + DigitValue(ds[Len(ds)])

\* \s* from position i: the position behind the whitespace found there
RECURSIVE SkipSpace(_, _)
SkipSpace(text, i) ==
  IF i <= Len(text) /\ text[i] \in Whitespace THEN SkipSpace(text, i + 1) ELSE i

\* \d+ from position i: the position behind the digits found there
RECURSIVE SkipDigits(_, _)
SkipDigits(text, i) ==
  IF i <= Len(text) /\ text[i] \in DigitChars THEN SkipDigits(text, i + 1) ELSE i

\* re.search(r"SCORE:\s*(\d+)", result), line 494: the leftmost match at or
\* behind position i with the integer of its group, or no match.
RECURSIVE SearchScoreFrom(_, _)
SearchScoreFrom(text, i) ==
  IF i > Len(text) THEN [marker |-> FALSE, value |-> 0]
  ELSE LET d == SkipSpace(text, i + 1)
           e == SkipDigits(text, d)
       IN IF text[i] = "SCORE:" /\ e > d
            THEN [marker |-> TRUE, value |-> IntOf(SubSeq(text, d, e - 1))]
            ELSE SearchScoreFrom(text, i + 1)

SearchScore(text) == SearchScoreFrom(text, 1)

\* What the pattern finds in the replies drawn in the runs.
JudgeReplies == {SearchScore(t) : t \in JudgeTexts}

\* A mutant of ParseJudgeReply: the integer is not checked against 0..100.
ParseJudgeReplyUnchecked(prompt, reply) ==
  IF reply.marker
    THEN {Scored(reply.value * 10, "judge", {"judge"})}
    ELSE SimulateEvaluation(prompt, {"judge"})

\* A mutant of ParseJudgeReply: 100 is taken to be out of range.
ParseJudgeReplyBelow100(prompt, reply) ==
  IF reply.marker /\ 0 <= reply.value /\ reply.value < 100
    THEN {Scored(reply.value * 10, "judge", {"judge"})}
    ELSE SimulateEvaluation(prompt, {"judge"})

\* _evaluate_with_llm, lines 493-509: the reply parsed; score / 100.0 is
\* value * 10 thousandths.
ParseJudgeReply(prompt, reply) ==
  IF reply.marker /\ 0 <= reply.value /\ reply.value <= 100
    THEN {Scored(reply.value * 10, "judge", {"judge"})}
    ELSE SimulateEvaluation(prompt, {"judge"})

\* _evaluate_with_llm, lines 493-509, for the reply text `result`.
EvaluateWithLlmReply(prompt, result) == ParseJudgeReply(prompt, SearchScore(result))

\* A mutant of EvaluateWithLlm: no handler around the request.
EvaluateWithLlmUnhandled(prompt, service) ==
  IF service = "up"
    THEN UNION {ParseJudgeReply(prompt, r) : r \in JudgeReplies}
    ELSE {Failed("APIError", {"judge"})}

\* _evaluate_with_llm, lines 432-513.
EvaluateWithLlm(prompt, service) ==
  IF service = "up"
    THEN UNION {ParseJudgeReply(prompt, r) : r \in JudgeReplies}
    ELSE SimulateEvaluation(prompt, {"judge"})

\* _evaluate_with_analyzer, lines 420-430: no handler around the call, and
\* class PromptAnalyzer (prompt_analyzer.py) defines no method evaluate.
EvaluateWithAnalyzer(prompt) == {Failed("AttributeError", {"analyzer"})}

\* A mutant of EvaluatePrompt: the analyzer is asked before the client.
EvaluatePromptAnalyzerFirst(prompt, client, analyzer, service) ==
  IF analyzer # "None" THEN EvaluateWithAnalyzer(prompt)
  ELSE IF client # "None" THEN EvaluateWithLlm(prompt, service)
  ELSE SimulateEvaluation(prompt, {})

\* The strategy an evaluation went to first, read off the calls it made.
FirstTried(o) ==
  IF "judge" \in o.calls THEN "judge"
  ELSE IF "analyzer" \in o.calls THEN "analyzer"
  ELSE "simulated"

\* evaluate_prompt, lines 363-378.
EvaluatePrompt(prompt, client, analyzer, service) ==
  IF client # "None" THEN EvaluateWithLlm(prompt, service)
  ELSE IF analyzer # "None" THEN EvaluateWithAnalyzer(prompt)
  ELSE SimulateEvaluation(prompt, {})

\* line 746: only evaluate if not already scored
NeedsEvaluation(pd) == pd.score = 0

\* A mutant of IsBetter: a tie replaces the best.
IsBetterOrEqual(score, best) == score >= best

\* line 754
IsBetter(score, best) == score > best

\* evolve(), lines 745-759: one pass of the loop over the population.
EvaluateNext ==
  /\ pc = "evaluate"
  /\ cursor <= Len(population)
  /\ LET pd == population[cursor]
         advance == /\ cursor' = cursor + 1
                    /\ pc' = IF cursor = Len(population) THEN "record" ELSE "evaluate"
     IN IF ~NeedsEvaluation(pd)
          THEN /\ advance
               /\ UNCHANGED <<exception, population, best_prompt, best_score,
                              registry, scoredBy, extCalls>>
          ELSE \E o \in EvaluatePrompt(pd.prompt, llm_client, prompt_analyzer, api) :
                 /\ extCalls' = extCalls \cup o.calls
                 /\ IF o.raised
                      THEN /\ pc' = "raised"
                           /\ exception' = o.error
                           /\ registry' =
                                [registry EXCEPT ![pd.oid].tried = FirstTried(o)]
                           /\ UNCHANGED <<cursor, population, best_prompt,
                                          best_score, scoredBy>>
                      ELSE /\ advance
                           /\ population' =
                                [population EXCEPT ![cursor].score = o.score]
                           /\ IF IsBetter(o.score, best_score)
                                THEN /\ best_score' = o.score
                                     /\ best_prompt' =
                                          Some([pd EXCEPT !.score = o.score])
                                ELSE UNCHANGED <<best_prompt, best_score>>
                           /\ registry' =
                                [registry EXCEPT
                                   ![pd.oid].evals = @ + 1,
                                   ![pd.oid].seen = pd.prompt,
                                   ![pd.oid].tried = FirstTried(o),
                                   ![pd.oid].first =
                                      IF @ = -1 THEN o.score ELSE @]
                           /\ scoredBy' = scoredBy \cup {o.by}
                           /\ UNCHANGED exception
  /\ UNCHANGED <<cfgVars, objVars, current_generation, evolution_history,
                 results, fsVars, nextOid, lastBuild, probeVars>>

\* --------------------------------------------------------------- recording
RECURSIVE SumScores(_)
SumScores(pop) == IF pop = <<>> THEN 0 ELSE Head(pop).score + SumScores(Tail(pop))

RECURSIVE MaxScore(_)
MaxScore(pop) ==
  IF Len(pop) = 1 THEN pop[1].score ELSE Max2(Head(pop).score, MaxScore(Tail(pop)))

RECURSIVE MinScore(_)
MinScore(pop) ==
  IF Len(pop) = 1 THEN pop[1].score ELSE Min2(Head(pop).score, MinScore(Tail(pop)))

\* A mutant of FirstBest: the first member, whatever its score.
FirstBestIsFirst(pop) == pop[1]

\* max(self.population, key = score): the first member with the greatest score.
FirstBest(pop) ==
  pop[CHOOSE k \in 1..Len(pop) :
        /\ pop[k].score = MaxScore(pop)
        /\ \A j \in 1..(k - 1) : pop[j].score < MaxScore(pop)]

\* lines 762-769; the mean is kept as the fraction num / den.
GenStats(generation, pop) ==
  [generation |-> generation,
   avg_score |-> [num |-> SumScores(pop), den |-> Len(pop)],
   max_score |-> MaxScore(pop),
   min_score |-> MinScore(pop),
   best_prompt_id |-> FirstBest(pop).id]

\* A mutant of ReachedMaxIterations: stops one generation early.
ReachedMaxIterationsEarly(generation, limit) == generation + 1 >= limit

\* line 774
ReachedMaxIterations(generation, limit) == generation >= limit

\* evolve(), lines 761-775.
RecordStats ==
  /\ pc = "record"
  /\ evolution_history' =
       Append(evolution_history, GenStats(current_generation, population))
  /\ pc' = IF ReachedMaxIterations(current_generation, max_iterations)
             THEN "finish" ELSE "select"
  /\ UNCHANGED <<cfgVars, exception, objVars, current_generation, population,
                 best_prompt, best_score, cursor, results, fsVars, obsVars,
                 probeVars>>

\* --------------------------------------------------------------- selection
\* x placed behind every member whose score is not smaller: equal scores keep
\* their order, as sorted(..., reverse = True) keeps it.
RECURSIVE InsertByScore(_, _)
InsertByScore(sorted, x) ==
  IF sorted = <<>> THEN <<x>>
  ELSE IF Head(sorted).score >= x.score
         THEN <<Head(sorted)>> \o InsertByScore(Tail(sorted), x)
         ELSE <<x>> \o sorted

\* A mutant of SortedByScore: the population is left in its order.
SortedByScoreNot(pop) == pop

\* line 687: sorted(self.population, key = score, reverse = True)
RECURSIVE SortedByScore(_)
SortedByScore(pop) ==
  IF pop = <<>> THEN <<>>
  ELSE InsertByScore(SortedByScore(SubSeq(pop, 1, Len(pop) - 1)), pop[Len(pop)])

\* the slice seq[:n]
Take(seq, n) == SubSeq(seq, 1, Min2(n, Len(seq)))

\* A mutant of EliteCount: no floor of one elite member.
EliteCountNoFloor(size) == size \div 5

\* line 690
EliteCount(size) == Max2(1, size \div 5)

\* line 694
CandidateCount(size) == Max2(2, size \div 2)

\* A mutant of MutationsPerCandidate: no floor of one child.
MutationsPerCandidateNoFloor(needed, candidates) == needed \div candidates

\* lines 696-697
MutationsPerCandidate(needed, candidates) == Max2(1, needed \div candidates)

\* A mutant of GenerateMutations: the children are stamped with the
\* generation before the current one.
GenerateMutationsStale(pd, count, generation, client, service, firstOid, draws) ==
  [k \in 1..count |->
     Variant(firstOid + k - 1,
             "gen" \o ToString(generation) \o "-" \o ToString(k - 1),
             IF client # "None"
               THEN MutateWithLlm(pd.prompt, service, draws[k].inner)
               ELSE CreateVariation(pd.prompt, draws[k].inner),
             generation - 1, pd.id, draws[k].recorded)]

\* generate_mutations, lines 515-550.  draws[k] holds the samples of the
\* k-th mutation: inner is drawn inside _create_variation, recorded is the
\* sample of line 536; len(mutations) = k - 1 goes into its id.
GenerateMutations(pd, count, generation, client, service, firstOid, draws) ==
  [k \in 1..count |->
     Variant(firstOid + k - 1,
             "gen" \o ToString(generation) \o "-" \o ToString(k - 1),
             IF client # "None"
               THEN MutateWithLlm(pd.prompt, service, draws[k].inner)
               ELSE CreateVariation(pd.prompt, draws[k].inner),
             generation, pd.id, draws[k].recorded)]

\* A mutant of PromptDictAfter: the text of the dictionary passed in is
\* edited in place.
PromptDictEdited(pd) == [pd EXCEPT !.prompt = @ \o "~var()"]

\* generate_mutations, lines 515-550: the dictionary passed in, after the
\* call.  It is only read (lines 527, 531, 544).
PromptDictAfter(pd) == pd

\* lines 700-702: the mutations of candidates c, c + 1, ... in order.
RECURSIVE MutationsFrom(_, _, _, _, _, _, _, _)
MutationsFrom(cands, c, count, generation, client, service, firstOid, draws) ==
  IF c > Len(cands) THEN <<>>
  ELSE GenerateMutations(cands[c], count, generation, client, service,
                         firstOid, draws[c])
         \o MutationsFrom(cands, c + 1, count, generation, client, service,
                          firstOid + count, draws)

\* A mutant of Trim: the list is never cut.
TrimNever(generation, size) == generation

\* A mutant of Trim: the last `size` members are kept.
TrimTail(generation, size) ==
  IF Len(generation) > size
    THEN SubSeq(generation, Len(generation) - size + 1, Len(generation))
    ELSE generation

\* lines 705-706
Trim(generation, size) ==
  IF Len(generation) > size THEN SubSeq(generation, 1, size) ELSE generation

\* The texts of fresh members, line 710.
FreshTexts(client, service) ==
  IF client # "None" THEN GeneratePromptWithLlm(service) ELSE Templates

\* lines 709-721: the members added while the list is short of `size`.
FreshFill(kept, size, generation, firstOid, texts) ==
  [k \in 1..(size - Len(kept)) |->
     Variant(firstOid + k - 1,
             "gen" \o ToString(generation) \o "-random-" \o ToString(Len(kept) + k - 1),
             texts[k], generation, "None", <<"random_introduction">>)]

\* evolve(), line 778 with create_next_generation, lines 679-723, and the
\* loop header of lines 738-739 that follows it.
CreateNextGeneration ==
  /\ pc = "select"
  /\ LET sorted_population == SortedByScore(population)
         elite == Take(sorted_population, EliteCount(population_size))
         mutation_candidates ==
           Take(sorted_population, CandidateCount(population_size))
         mutations_needed == population_size - Len(elite)
         per == MutationsPerCandidate(mutations_needed, Len(mutation_candidates))
     IN \E draws \in [1..Len(mutation_candidates) -> [1..per -> SampleDraws]] :
          LET mutations ==
                MutationsFrom(mutation_candidates, 1, per, current_generation,
                              llm_client, api, nextOid, draws)
              kept == Trim(elite \o mutations, population_size)
              missing == IF Len(kept) < population_size
                           THEN population_size - Len(kept) ELSE 0
          IN \E texts \in [1..missing -> FreshTexts(llm_client, api)] :
               LET fresh == IF missing > 0
                              THEN FreshFill(kept, population_size,
                                             current_generation,
                                             nextOid + Len(mutations), texts)
                              ELSE <<>>
               IN /\ population' = kept \o fresh
                  /\ registry' =
                       registry
                         \o Registered(mutations, "offspring",
                                       Len(kept) - Len(elite),
                                       current_generation + 1)
                         \o Registered(fresh, "fresh", Len(fresh),
                                       current_generation + 1)
                  /\ nextOid' = nextOid + Len(mutations) + Len(fresh)
                  /\ lastBuild' =
                       [elite |-> Len(elite),
                        offspring |-> Len(kept) - Len(elite),
                        fresh |-> Len(fresh)]
                  /\ extCalls' =
                       IF llm_client = "None" THEN extCalls
                       ELSE extCalls
                              \cup (IF Len(mutations) > 0 THEN MutateCalls(api) ELSE {})
                              \cup (IF Len(fresh) > 0 THEN {"generate"} ELSE {})
  /\ IF current_generation < max_iterations
       THEN /\ current_generation' = current_generation + 1
            /\ cursor' = 1
            /\ pc' = "evaluate"
       ELSE /\ pc' = "finish"
            /\ UNCHANGED <<current_generation, cursor>>
  /\ UNCHANGED <<cfgVars, exception, objVars, best_prompt, best_score,
                 evolution_history, results, fsVars, scoredBy, probeVars>>

\* ------------------------------------------------------------- persistence
\* A mutant of Results: the generations are counted from zero.
ResultsCountsFromZero ==
  LET start == IF evolution_history # <<>>
                 THEN evolution_history[1].avg_score
                 ELSE [num |-> 0, den |-> 1]
  IN [best_prompt |-> best_prompt,
      generations |-> current_generation - 1,
      population_size |-> population_size,
      starting_score |-> start,
      final_score |-> best_score,
      improvement |-> [num |-> best_score * start.den - start.num,
                       den |-> start.den]]

\* lines 783-795; the mean of the first generation and the improvement are
\* kept as fractions num / den.
Results ==
  LET start == IF evolution_history # <<>>
                 THEN evolution_history[1].avg_score
                 ELSE [num |-> 0, den |-> 1]
  IN [best_prompt |-> best_prompt,
      generations |-> current_generation,
      population_size |-> population_size,
      starting_score |-> start,
      final_score |-> best_score,
      improvement |-> [num |-> best_score * start.den - start.num,
                       den |-> start.den]]

\* save_results, lines 802-842, with the write that raises (0: none).  The
\* three files are written in order; a file whose write raises is left
\* opened and incomplete, the files after it are not reached.
FilesAfterSave(failing) ==
  [a \in DOMAIN files |->
     LET k == CHOOSE i \in 1..Len(Artifacts) : Artifacts[i] = a
     IN IF failing = 0 \/ k < failing THEN "written"
        ELSE IF k = failing THEN "partial"
        ELSE files[a]]

\* evolve(), lines 780-800.  results["best_prompt"]["prompt"] raises
\* TypeError inside the first with-block when best_prompt is None.
Finish ==
  /\ pc = "finish"
  /\ \E failing \in 0..Len(Artifacts) :
       LET stop == IF best_prompt = NoPrompt THEN 1 ELSE failing
       IN /\ files' = FilesAfterSave(stop)
          /\ IF stop = 0
               THEN /\ pc' = "returned"
                    /\ results' = Some(Results)
                    /\ UNCHANGED exception
               ELSE /\ pc' = "raised"
                    /\ exception' = IF best_prompt = NoPrompt
                                      THEN "TypeError" ELSE "OSError"
                    /\ UNCHANGED results
  /\ UNCHANGED <<cfgVars, objVars, current_generation, population, best_prompt,
                 best_score, evolution_history, cursor, output_dir_exists,
                 obsVars, probeVars>>

\* ------------------------------------------------------------ specification
Next ==
  \/ Main
  \/ StartEvolve
  \/ EvaluateNext
  \/ RecordStats
  \/ CreateNextGeneration
  \/ Finish

Spec == Init /\ [][Next]_vars

\* Selection on its own: runs with the simulated evaluator over two
\* generations, with a population of 2 (children are cut off) and of 10
\* (two elite members, five candidates, fresh members).
InitWide ==
  /\ args \in [task : {<<"s", "u", "m", " ", "u", "p">>}, initial_prompt : {""},
               population : {2, 10}, iterations : {2}, simulate : {FALSE}]
  /\ OPENAI_AVAILABLE = FALSE
  /\ PROMPT_ANALYZER_AVAILABLE = FALSE
  /\ api = "up"
  /\ judge_reply = <<>>
  /\ Unstarted

SpecWide == InitWide /\ [][Next]_vars

\* The constructor on its own: main() with every task description of
\* CtorTasks, followed by the first step of evolve().
InitCtor ==
  /\ args \in [task : CtorTasks, initial_prompt : {""}, population : {1},
               iterations : {1}, simulate : {FALSE}]
  /\ OPENAI_AVAILABLE \in BOOLEAN
  /\ PROMPT_ANALYZER_AVAILABLE \in BOOLEAN
  /\ api = "up"
  /\ judge_reply = <<>>
  /\ Unstarted

NextCtor ==
  \/ Main
  \/ StartEvolve

SpecCtor == InitCtor /\ [][NextCtor]_vars

\* The judge on its own: an object constructed with a client, and one call
\* of evaluate_prompt that the service answers with the text judge_reply.
InitJudge ==
  /\ args \in [task : {<<"s", "u", "m", " ", "u", "p">>}, initial_prompt : {"SEED"},
               population : {1}, iterations : {1}, simulate : {FALSE}]
  /\ OPENAI_AVAILABLE = TRUE
  /\ PROMPT_ANALYZER_AVAILABLE = TRUE
  /\ api = "up"
  /\ judge_reply \in ReplyTexts
  /\ Unstarted

\* evaluate_prompt, lines 363-378, called with the seed text: the client is
\* set, so _evaluate_with_llm is taken (line 373).
EvaluateOneReply ==
  /\ pc = "constructed"
  /\ llm_client # "None"
  /\ \E o \in EvaluateWithLlmReply(initial_prompt, judge_reply) :
       /\ judge_result' = Some(o)
       /\ extCalls' = extCalls \cup o.calls
  /\ pc' = "judged"
  /\ UNCHANGED <<cfgVars, exception, objVars, runVars, fsVars, nextOid, registry,
                 scoredBy, lastBuild, judge_reply, mutation_call, mutation_result,
                 sim_call, sim_result>>

NextJudge ==
  \/ Main
  \/ EvaluateOneReply

SpecJudge == InitJudge /\ [][NextJudge]_vars

\* generate_mutations on its own: small runs, and after evolve() has
\* returned one direct call of the method with a member of the population,
\* the samples drawn from MutSamples.
InitMutate ==
  /\ args \in [task : {<<"s", "u", "m", " ", "u", "p">>}, initial_prompt : SeedTexts,
               population : 1..2, iterations : 1..2, simulate : {FALSE}]
  /\ OPENAI_AVAILABLE \in BOOLEAN
  /\ PROMPT_ANALYZER_AVAILABLE = FALSE
  /\ api \in {"up", "down", "revision_down"}
  /\ judge_reply = <<>>
  /\ Unstarted

GenerateMutationsCall ==
  /\ pc = "returned"
  /\ \E i \in 1..Len(population), count \in 1..MaxCount :
       \E draws \in [1..count -> MutDraws] :
         LET pd == population[i]
         IN /\ mutation_call' = [prompt_dict |-> pd, num_mutations |-> count,
                                  draws |-> draws]
            /\ mutation_result' =
                 GenerateMutations(pd, count, current_generation, llm_client,
                                   api, nextOid, draws)
            /\ population' = [population EXCEPT ![i] = PromptDictAfter(pd)]
            /\ nextOid' = nextOid + count
  /\ extCalls' = IF llm_client # "None"
                   THEN extCalls \cup MutateCalls(api) ELSE extCalls
  /\ pc' = "mutated"
  /\ UNCHANGED <<cfgVars, exception, objVars, current_generation, best_prompt,
                 best_score, evolution_history, cursor, results, fsVars,
                 registry, scoredBy, lastBuild, judge_reply, judge_result,
                 sim_call, sim_result>>

NextMutate ==
  \/ Main
  \/ StartEvolve
  \/ EvaluateNext
  \/ RecordStats
  \/ CreateNextGeneration
  \/ Finish
  \/ GenerateMutationsCall

SpecMutate == InitMutate /\ [][NextMutate]_vars

\* One direct call of _simulate_evaluation on the constructed object, beside
\* runs of two members over two generations.
InitSim ==
  /\ args \in [task : {<<"s", "u", "m", " ", "u", "p">>}, initial_prompt : {""},
               population : {2}, iterations : {2}, simulate : {FALSE}]
  /\ OPENAI_AVAILABLE \in BOOLEAN
  /\ PROMPT_ANALYZER_AVAILABLE = FALSE
  /\ api \in {"up", "down"}
  /\ judge_reply = <<>>
  /\ Unstarted

SimulateCall ==
  /\ pc = "constructed"
  /\ \E prompt \in SimTexts : \E jitter \in Jitters :
       LET f == FeaturesOf(prompt)
       IN /\ sim_call' = [prompt |-> prompt, jitter |-> jitter]
          /\ sim_result' = [raw |-> RawScore(f, jitter),
                            score |-> SimulatedScore(f, jitter)]
  /\ pc' = "simulated"
  /\ UNCHANGED <<cfgVars, exception, objVars, runVars, fsVars, obsVars,
                 judge_reply, judge_result, mutation_call, mutation_result>>

NextSim ==
  \/ Next
  \/ SimulateCall

SpecSim == InitSim /\ [][NextSim]_vars

\* ================================================================== claims
Running == pc \in {"evaluate", "record", "select", "finish", "returned"}

\* Generations whose evaluation and recording are complete.
CompletedGenerations ==
  IF pc \in {"evaluate", "record"} THEN current_generation - 1
  ELSE current_generation

\* C1: in every run that was constructed, the trace holds one entry per
\* completed generation and no other entry, entry k carries generation
\* index k, and when evolve() reaches persistence and when it returns the
\* trace holds exactly max_iterations entries.
C1_TraceOnePerGeneration ==
  Running =>
    /\ Len(evolution_history) = CompletedGenerations
    /\ \A k \in 1..Len(evolution_history) : evolution_history[k].generation = k
    /\ pc \in {"finish", "returned"} => Len(evolution_history) = max_iterations

C1_Witness ==
  /\ pc = "returned"
  /\ max_iterations = 3
  /\ Len(evolution_history) = 3

\* C2: whenever a generation is evaluated, recorded or selected from, the
\* population has exactly population_size members, with or without a seed
\* text; and every population built by create_next_generation is made of
\* its elite, the offspring kept by the truncation and the fresh members,
\* which add up to population_size, no elite member being cut.
C2_PopulationSizeExact ==
  Running =>
    /\ Len(population) = population_size
    /\ current_generation >= 2 =>
         /\ lastBuild.elite = EliteCount(population_size)
         /\ lastBuild.offspring >= 0
         /\ lastBuild.fresh >= 0
         /\ lastBuild.elite + lastBuild.offspring + lastBuild.fresh
              = population_size

C2_Witness ==
  /\ pc = "evaluate"
  /\ current_generation >= 2
  /\ initial_prompt # ""
  /\ lastBuild.offspring > 0
  /\ lastBuild.fresh > 0

\* C3: no two Variant objects created during a run carry the same id.
C3_IdsUnique ==
  \A i, j \in 1..Len(registry) :
    i # j => registry[i].id # registry[j].id

\* C4: no Variant is passed to the evaluator more than once, and the score
\* of every member of the population that has been evaluated is the score
\* its first evaluation gave it.
C4_EvaluatedOnce ==
  /\ \A o \in 1..Len(registry) : registry[o].evals <= 1
  /\ \A k \in 1..Len(population) :
       registry[population[k].oid].evals > 0 =>
         population[k].score = registry[population[k].oid].first

\* C5: best_score never decreases, and best_prompt / best_score change only
\* in an evaluation step whose newly assigned score is strictly greater than
\* the best_score before it; they then become that Variant and that score.
C5_BestScoreMonotone ==
  [][ /\ best_score' >= best_score
      /\ (best_score' # best_score \/ best_prompt' # best_prompt) =>
           /\ pc = "evaluate"
           /\ pc' # "raised"
           /\ population'[cursor].score > best_score
           /\ best_score' = population'[cursor].score
           /\ best_prompt' = Some(population'[cursor]) ]_vars

\* A later member tied with the best: the earlier one is still best_prompt,
\* after best_score had risen from a smaller score.
C5_Witness ==
  /\ pc = "record"
  /\ Len(population) >= 3
  /\ 0 < population[1].score
  /\ population[1].score < population[2].score
  /\ population[3].score = population[2].score
  /\ best_score = population[2].score
  /\ best_prompt = Some(population[2])

\* C6: when a run reaches final persistence, best_prompt is set, its text is
\* not empty, its score is best_score, and best_score lies in [0, 1] and is
\* the greatest score assigned in the run.
C6_BestSetAtPersistence ==
  pc = "finish" =>
    /\ best_prompt # NoPrompt
    /\ best_prompt[1].prompt # ""
    /\ best_prompt[1].score = best_score
    /\ best_score \in 0..1000
    /\ \A k \in 1..Len(population) : population[k].score <= best_score

\* C7: with a client configured and every request to the service raising,
\* every stored score comes from the simulated strategy, every member of a
\* recorded population has a score, no exception of the evaluator or the
\* generator leaves evolve() (the only exception left is an I/O error of the
\* final file writes), and the trace is complete when evolve() returns.
C7_JudgeDownFallsBack ==
  (llm_client # "None" /\ api = "down") =>
    /\ scoredBy \subseteq {"simulated"}
    /\ pc = "raised" => exception = "OSError"
    /\ pc \in {"record", "select", "finish", "returned"} =>
         \A k \in 1..Len(population) : population[k].score \in SimScores
    /\ pc = "returned" => Len(evolution_history) = max_iterations

C7_Witness ==
  /\ llm_client # "None"
  /\ api = "down"
  /\ pc = "returned"
  /\ max_iterations >= 2
  /\ "judge" \in extCalls
  /\ scoredBy = {"simulated"}

\* C8: when the analyzer is the selected evaluator and its call fails, the
\* failure does not leave evolve(): the run is not ended by that exception.
C8_AnalyzerFailureContained ==
  (llm_client = "None" /\ prompt_analyzer # "None" /\ "analyzer" \in extCalls) =>
    ~(pc = "raised" /\ exception \notin {"OSError"})

\* C9: in a run whose simulate flag is set, no request is made to an
\* external capability (judge, generator or analyzer).
C9_SimulateMakesNoExternalCall ==
  args.simulate => extCalls = {}

\* missing, empty or whitespace-only
BlankTask(t) == \A k \in 1..Len(t) : t[k] \in Whitespace

NothingStarted ==
  /\ attrs = {}
  /\ ~output_dir_exists
  /\ \A a \in DOMAIN files : files[a] = "absent"
  /\ population = <<>>
  /\ registry = <<>>
  /\ nextOid = 1
  /\ scoredBy = {}
  /\ extCalls = {}
  /\ evolution_history = <<>>
  /\ current_generation = 0

\* C10: with a missing, empty or whitespace-only task description the
\* constructor raises ValueError, and it does so with no attribute of the
\* run set, the output directory not created, no file written, no Variant
\* created or evaluated; nothing of the run happens afterwards.
C10_BlankTaskFailsFirst ==
  BlankTask(args.task) =>
    \/ pc = "main" /\ NothingStarted
    \/ pc = "raised" /\ exception = "ValueError" /\ NothingStarted

C10_Witness ==
  /\ pc = "raised"
  /\ exception = "ValueError"
  /\ args.task # <<>>
  /\ Len(args.task) >= 5
  /\ BlankTask(args.task)

\* The number of characters from the first to the last character of t that
\* is not whitespace; 0 when there is none.
CoreLength(t) ==
  IF BlankTask(t) THEN 0
  ELSE LET solid == {k \in 1..Len(t) : t[k] \notin Whitespace}
           first == CHOOSE k \in solid : \A j \in solid : k <= j
           last  == CHOOSE k \in solid : \A j \in solid : k >= j
       IN last - first + 1

\* C11 as stated: every task description with a character that is not
\* whitespace is accepted by the constructor.
C11_NonBlankTaskAccepted ==
  (pc # "main" /\ ~BlankTask(args.task)) => pc # "raised"

\* C11, amended: the constructor raises ValueError exactly for the task
\* descriptions with fewer than 5 characters between their first and their
\* last non-whitespace character (the missing, empty and whitespace-only
\* ones among them), before anything of the run is set up; every other task
\* description is accepted unchanged and evolve() starts on it.
C11_ShortTaskIsTheOnlyRejection ==
  pc # "main" =>
    IF CoreLength(args.task) < 5
      THEN pc = "raised" /\ exception = "ValueError" /\ NothingStarted
      ELSE /\ pc \in {"constructed", "evaluate"}
           /\ exception = "None"
           /\ attrs = AllAttrs
           /\ task_description = args.task
           /\ pc = "evaluate" => Len(population) = population_size

\* A padded description of six characters, four of them between the blanks,
\* is rejected.
C11_Witness ==
  /\ pc = "raised"
  /\ exception = "ValueError"
  /\ Len(args.task) = 6
  /\ CoreLength(args.task) = 4

\* C12: when the write of one of the three files fails in save_results, the
\* other two files are written all the same and evolve() returns its
\* results; no I/O error of a file write leaves evolve().
C12_ArtifactsIndependent ==
  \A a \in DOMAIN files :
    (files[a] = "partial" /\ best_prompt # NoPrompt) =>
      /\ pc = "returned"
      /\ results # NoPrompt
      /\ \A b \in DOMAIN files \ {a} : files[b] = "written"

\* C13: every score stored on a Variant, the first score every evaluation
\* returned, best_score, the score inside best_prompt and every maximum
\* recorded in the trace lie in [0, 1] (0..1000 thousandths).
C13_ScoresInUnitInterval ==
  /\ \A k \in 1..Len(population) : population[k].score \in 0..1000
  /\ \A o \in 1..Len(registry) :
       registry[o].evals > 0 => registry[o].first \in 0..1000
  /\ best_score \in 0..1000
  /\ best_prompt # NoPrompt => best_prompt[1].score \in 0..1000
  /\ \A g \in 1..Len(evolution_history) :
       /\ evolution_history[g].max_score \in 0..1000
       /\ evolution_history[g].min_score \in 0..1000

\* A finished run with the service answering in which both the judge's
\* integer and the simulated fallback (for a reply without a usable integer)
\* have given stored scores.
C13_Witness ==
  /\ pc = "returned"
  /\ llm_client # "None"
  /\ api = "up"
  /\ scoredBy = {"judge", "simulated"}
  /\ best_score = 980

\* Where the marker stands in a reply: the literal at i, whitespace up to
\* d, and all the decimal digits that follow, d to e.
MarkerSpans(text) ==
  {s \in (1..Len(text)) \X (1..Len(text)) \X (1..Len(text)) :
     /\ s[1] < s[2] /\ s[2] <= s[3]
     /\ text[s[1]] = "SCORE:"
     /\ \A j \in (s[1] + 1)..(s[2] - 1) : text[j] \in Whitespace
     /\ \A j \in s[2]..s[3] : text[j] \in DigitChars
     /\ s[3] = Len(text) \/ text[s[3] + 1] \notin DigitChars}

RECURSIVE Pow10(_)
Pow10(n) == IF n = 0 THEN 1 ELSE 10 * Pow10(n - 1)

\* The number the digits text[d..e] write.
RECURSIVE DecimalValue(_, _, _)
DecimalValue(text, d, e) ==
  IF d > e THEN 0
  ELSE DigitValue(text[d]) * Pow10(e - d) + DecimalValue(text, d + 1, e)

\* The integer of the first marker of a reply that has a marker.
FirstMarkerValue(text) ==
  LET s == CHOOSE s \in MarkerSpans(text) :
             \A t \in MarkerSpans(text) : s[1] <= t[1]
  IN DecimalValue(text, s[2], s[3])

\* C14: for every judge reply text, the evaluation raises nothing; when the
\* reply has the marker SCORE: <int> and the integer of its first marker is
\* within 0..100, the evaluation returns that integer / 100; when it has no
\* marker, or that integer is above 100, it returns a score of the
\* simulated evaluator for the same text.
C14_JudgeReplyParsed ==
  pc = "judged" =>
    /\ judge_result # <<>>
    /\ ~judge_result[1].raised
    /\ IF MarkerSpans(judge_reply) # {} /\ FirstMarkerValue(judge_reply) \in 0..100
         THEN /\ judge_result[1].by = "judge"
              /\ judge_result[1].score = FirstMarkerValue(judge_reply) * 10
         ELSE /\ judge_result[1].by = "simulated"
              /\ judge_result[1].score \in SimScores

\* The reply "SCORE: 100", at the upper end of the range, evaluated to 1.0.
C14_Witness ==
  /\ pc = "judged"
  /\ judge_reply = <<"SCORE:", " ", "1", "0", "0">>
  /\ judge_result = Some(Scored(1000, "judge", {"judge"}))

\* C15: in a run with a seed text, the first Variant object created is the
\* first member of the initial population; it has the id init-0, the seed
\* text of the command line as its text, no parent, no mutation tags and
\* generation 0, and whenever the evaluator is called for it the text passed
\* is that seed text.
C15_SeedIsFirstVariant ==
  (args.initial_prompt # "" /\ Running) =>
    /\ registry[1].id = "init-0"
    /\ registry[1].kind = "initial"
    /\ registry[1].evals > 0 => registry[1].seen = args.initial_prompt
    /\ current_generation = 1 =>
         /\ population[1].oid = 1
         /\ population[1].id = "init-0"
         /\ population[1].prompt = args.initial_prompt
         /\ population[1].parent = "None"
         /\ population[1].mutations = <<>>
         /\ population[1].generation = 0

\* The seed Variant evaluated in a population of several members, the
\* other members being filled in behind it.
C15_Witness ==
  /\ pc = "record"
  /\ current_generation = 1
  /\ args.initial_prompt = "SEED"
  /\ Len(population) >= 2
  /\ population[1].prompt = "SEED"
  /\ population[1].score > 0
  /\ registry[1].evals = 1
  /\ registry[1].seen = "SEED"
  /\ population[2].mutations = <<"initial_generation">>

\* The strategies of the catalog, and the samples random.sample can give.
Catalog == {MUTATION_STRATEGIES[k] : k \in 1..Len(MUTATION_STRATEGIES)}

IsSample(tags) ==
  /\ Len(tags) <= 3
  /\ \A k \in 1..Len(tags) : tags[k] \in Catalog
  /\ \A j, k \in 1..Len(tags) : j # k => tags[j] # tags[k]

\* C16: every Variant generate_mutations returns without a client (its text
\* made by _create_variation) carries as its mutations, in the same order,
\* the strategies _create_variation sampled and applied for that text: at
\* most 3, pairwise distinct, of the catalog.
C16_TagsAreAppliedStrategies ==
  (pc = "mutated" /\ llm_client = "None") =>
    \A k \in 1..Len(mutation_result) :
      /\ IsSample(mutation_result[k].mutations)
      /\ mutation_result[k].mutations = mutation_call.draws[k].inner
      /\ mutation_result[k].prompt =
           CreateVariation(mutation_call.prompt_dict.prompt,
                           mutation_result[k].mutations)

\* C19: with a client set and the critique request or the revision request
\* raising, generate_mutations returns as many Variants as were asked for,
\* each complete and with the text _create_variation makes of the parent
\* text; no exception leaves the call, and the request that raised was made.
C19_MutationFallsBackToVariation ==
  (pc = "mutated" /\ llm_client # "None" /\ api # "up") =>
    /\ exception = "None"
    /\ Len(mutation_result) = mutation_call.num_mutations
    /\ "critique" \in extCalls
    /\ api = "revision_down" => "revise" \in extCalls
    /\ \A k \in 1..Len(mutation_result) :
         /\ mutation_result[k].prompt =
              CreateVariation(mutation_call.prompt_dict.prompt,
                              mutation_call.draws[k].inner)
         /\ mutation_result[k].prompt # mutation_call.prompt_dict.prompt
         /\ mutation_result[k].id # ""
         /\ mutation_result[k].score = 0
         /\ mutation_result[k].parent = mutation_call.prompt_dict.id
         /\ mutation_result[k].generation = current_generation
         /\ IsSample(mutation_result[k].mutations)

\* Two children asked for, the critique answered and the revision request
\* raising for them.
C19_Witness ==
  /\ pc = "mutated"
  /\ llm_client # "None"
  /\ api = "revision_down"
  /\ mutation_call.num_mutations = 2
  /\ Len(mutation_result) = 2
  /\ "revise" \in extCalls

\* C20: a call generate_mutations(prompt_dict, num_mutations) returns
\* num_mutations Variant objects that did not exist before, each with the
\* id of prompt_dict as its parent, score 0 (not evaluated) and the current
\* generation; the population, the dictionary passed in among it, and
\* best_prompt, best_score, evolution_history and current_generation are
\* the same after the call as before it.
C20_GenerateMutationsFrame ==
  [][ pc' = "mutated" =>
        /\ Len(mutation_result') = mutation_call'.num_mutations
        /\ \A k \in 1..Len(mutation_result') :
             /\ mutation_result'[k].parent = mutation_call'.prompt_dict.id
             /\ mutation_result'[k].score = 0
             /\ mutation_result'[k].generation = current_generation
             /\ mutation_result'[k].oid >= nextOid
             /\ \A j \in 1..Len(mutation_result') :
                  j # k => mutation_result'[j].oid # mutation_result'[k].oid
        /\ \E i \in 1..Len(population) :
             population[i] = mutation_call'.prompt_dict
        /\ population' = population
        /\ best_prompt' = best_prompt
        /\ best_score' = best_score
        /\ evolution_history' = evolution_history
        /\ current_generation' = current_generation ]_vars

\* Two children made of the best member after a run of two generations.
C20_Witness ==
  /\ pc = "mutated"
  /\ max_iterations = 2
  /\ mutation_call.num_mutations = 2
  /\ Len(mutation_result) = 2
  /\ best_prompt = Some(mutation_call.prompt_dict)
  /\ mutation_result[2].parent = mutation_call.prompt_dict.id
  /\ mutation_result[2].generation = 2

\* C17: every Variant object created with a parent was created after an
\* object that has the parent's id, was a member of the population of a
\* generation not later than the one the child was made in (the child joins
\* the next one, if it is kept), and carries a smaller generation; every
\* object with the parent's id carries a smaller generation.  The members
\* of the initial population and the fresh members have no parent, the
\* children made by generate_mutations have one.
C17_ParentFromEarlierGeneration ==
  \A c \in 1..Len(registry) :
    /\ registry[c].kind \in {"initial", "fresh"} => registry[c].parent = "None"
    /\ registry[c].kind = "offspring" => registry[c].parent # "None"
    /\ registry[c].parent # "None" =>
         /\ \E p \in 1..(c - 1) :
              /\ registry[p].id = registry[c].parent
              /\ registry[p].joined \in 1..registry[c].generation
              /\ registry[c].joined # 0 => registry[p].joined < registry[c].joined
         /\ \A p \in 1..Len(registry) :
              registry[p].id = registry[c].parent =>
                registry[p].generation < registry[c].generation

\* A member of the third population whose parent was itself made from a
\* member of the initial population.
C17_Witness ==
  \E c, p \in 1..Len(registry) :
    /\ registry[c].joined = 3
    /\ registry[c].generation = 2
    /\ registry[c].parent = registry[p].id
    /\ registry[p].joined = 2
    /\ registry[p].generation = 1
    /\ registry[p].parent # "None"

\* C18: a run that was constructed ends with evolve() returning, after
\* exactly max_iterations generations were evaluated and recorded and
\* max_iterations - 1 next generations were built, with its results
\* written; while it runs it never records more than max_iterations
\* generations.
C18_RunsAllGenerations ==
  /\ Running => Len(evolution_history) <= max_iterations
  /\ (attrs # {} /\ pc \in {"raised", "returned"}) =>
       /\ pc = "returned"
       /\ Len(evolution_history) = max_iterations
       /\ current_generation - 1 = max_iterations - 1
       /\ \A a \in DOMAIN files : files[a] = "written"

\* The members of the initial population behind the seed Variant.
FilledSlots == {k \in 1..Len(population) : ~(args.initial_prompt # "" /\ k = 1)}

\* C21 as stated: in the initial population every member other than the
\* seed Variant holds a variation of the seed text when there is a seed and
\* a template text when there is none.
C21_FillsAreLocal ==
  (Running /\ current_generation = 1) =>
    \A k \in FilledSlots :
      IF args.initial_prompt # ""
        THEN \E s \in Samples :
               population[k].prompt = CreateVariation(args.initial_prompt, s)
        ELSE population[k].prompt \in Templates

\* C21, amended: the initial population has population_size members, and
\* every member other than the seed Variant is numbered by its slot, tagged
\* initial_generation, and holds: without a client, a variation of the seed
\* text when there is a seed and a template text when there is none; with a
\* client, the text the service generated, or a template text when the
\* request raised, whether or not there is a seed.
C21_FillsByMode ==
  (Running /\ current_generation = 1) =>
    /\ Len(population) = args.population
    /\ \A k \in FilledSlots :
         /\ population[k].id = "init-" \o ToString(k - 1)
         /\ population[k].mutations = <<"initial_generation">>
         /\ IF ~OPENAI_AVAILABLE
              THEN IF args.initial_prompt # ""
                     THEN \E s \in Samples :
                            population[k].prompt =
                              CreateVariation(args.initial_prompt, s)
                     ELSE population[k].prompt \in Templates
              ELSE IF api = "up"
                     THEN /\ population[k].prompt = "LLMGEN"
                          /\ "generate" \in extCalls
                     ELSE population[k].prompt \in Templates

\* A seed and a client: the slots behind the seed hold generated texts.
C21_Witness ==
  /\ pc = "evaluate"
  /\ current_generation = 1
  /\ args.initial_prompt = "SEED"
  /\ OPENAI_AVAILABLE
  /\ Len(population) = 3
  /\ population[1].prompt = "SEED"
  /\ population[2].prompt = "LLMGEN"
  /\ population[3].prompt = "LLMGEN"

\* The strategy the configuration of the process selects.
SelectedStrategy ==
  IF OPENAI_AVAILABLE THEN "judge"
  ELSE IF PROMPT_ANALYZER_AVAILABLE THEN "analyzer"
  ELSE "simulated"

\* C22: once the object is constructed, llm_client and prompt_analyzer are
\* what the constructor made of the configuration and no step changes
\* them; every Variant that has been passed to the evaluator went first to
\* the judge when a client is set, else to the analyzer when there is one,
\* else to the simulated evaluator, the same for all Variants of the run.
C22_StrategyFixedAtConstruction ==
  [][ (pc # "main" /\ pc # "raised") =>
        /\ llm_client' = llm_client
        /\ prompt_analyzer' = prompt_analyzer
        /\ (llm_client # "None") = OPENAI_AVAILABLE
        /\ (prompt_analyzer # "None") = PROMPT_ANALYZER_AVAILABLE
        /\ \A o \in 1..Len(registry') :
             registry'[o].tried \in {"None", SelectedStrategy} ]_vars

\* Several Variants evaluated over two generations with a client and an
\* analyzer at hand: all went to the judge.
C22_Witness ==
  /\ pc = "returned"
  /\ max_iterations >= 2
  /\ llm_client # "None"
  /\ prompt_analyzer # "None"
  /\ Len(registry) >= 3
  /\ \E o \in 2..Len(registry) :
       /\ registry[o].generation >= 1
       /\ registry[o].tried = "judge"
  /\ registry[1].tried = "judge"

\* max(1, population_size // 5)
EliteSize == IF population_size \div 5 >= 1 THEN population_size \div 5 ELSE 1

\* C23: in every step that builds a next generation, the first
\* max(1, population_size // 5) members of the new population are members
\* of the previous one, unchanged (same object, id, text and score) and
\* pairwise different, in descending order of score, and no member of the
\* previous population left out of them has a greater score; the new
\* population has population_size members, and those behind the elite are
\* objects made in this step: the cut removed nothing of the elite.
C23_ElitePreserved ==
  [][ pc = "select" =>
        /\ Len(population') = population_size
        /\ \A k \in 1..EliteSize :
             /\ \E j \in 1..Len(population) : population'[k] = population[j]
             /\ \A l \in 1..EliteSize :
                  l # k => population'[l].oid # population'[k].oid
             /\ k < EliteSize => population'[k].score >= population'[k + 1].score
             /\ \A j \in 1..Len(population) :
                  (\A l \in 1..EliteSize : population'[l].oid # population[j].oid)
                    => population'[k].score >= population[j].score
        /\ \A k \in (EliteSize + 1)..Len(population') :
             population'[k].oid >= nextOid ]_vars

\* Two elite members carried into the second generation of a population of
\* ten, the better one in front, neither of them the first member before.
C23_Witness ==
  /\ pc = "evaluate"
  /\ current_generation = 2
  /\ population_size = 10
  /\ population[1].oid = 3
  /\ population[2].oid = 7
  /\ population[1].score = 980
  /\ population[2].score = 980
  /\ population[3].score = 0

\* The registry entries of the objects a step creates.
Created(kind) ==
  {o \in (Len(registry) + 1)..Len(registry') : registry'[o].kind = kind}

\* max(2, population_size // 2), and the candidates there are.
CandidateLimit == IF population_size \div 2 >= 2 THEN population_size \div 2 ELSE 2
CandidatesThere == IF Len(population) < CandidateLimit THEN Len(population)
                   ELSE CandidateLimit

\* max(1, (population_size - eliteCount) // candidateCount)
ChildrenEach ==
  IF (population_size - EliteSize) \div CandidatesThere >= 1
    THEN (population_size - EliteSize) \div CandidatesThere ELSE 1

RECURSIVE ScoreTotal(_)
ScoreTotal(n) == IF n = 0 THEN 0 ELSE population[n].score + ScoreTotal(n - 1)

\* The objects of a population, in order.
OidsOf(pop) == [k \in 1..Len(pop) |-> pop[k].oid]

\* C25: a trace entry is appended only when every member of the current
\* population has been evaluated at least once, it is the entry of the
\* current generation and the population is not touched by that step; its
\* min, mean and max are those of exactly this population's scores with
\* min <= mean <= max, and its best id is the id of a member whose score is
\* the recorded max.  The members of a population are replaced only after
\* the entry of its generation has been appended.
C25_EntryAfterScoringBeforeSelection ==
  [][ /\ evolution_history' # evolution_history =>
           LET e == evolution_history'[Len(evolution_history')]
               n == Len(population)
           IN /\ evolution_history' = Append(evolution_history, e)
              /\ Len(evolution_history') = current_generation
              /\ e.generation = current_generation
              /\ population' = population
              /\ n > 0
              /\ \A k \in 1..n : registry[population[k].oid].evals >= 1
              /\ \A k \in 1..n : e.min_score <= population[k].score
                                  /\ population[k].score <= e.max_score
              /\ \E k \in 1..n : population[k].score = e.min_score
              /\ e.avg_score.den = n
              /\ e.avg_score.num = ScoreTotal(n)
              /\ e.min_score * e.avg_score.den <= e.avg_score.num
              /\ e.avg_score.num <= e.max_score * e.avg_score.den
              /\ \E k \in 1..n : /\ population[k].id = e.best_prompt_id
                                 /\ population[k].score = e.max_score
      /\ (population # <<>> /\ OidsOf(population') # OidsOf(population)) =>
           /\ Len(evolution_history) = current_generation
           /\ evolution_history' = evolution_history ]_vars

\* The entry of a second generation whose scores differ and whose best
\* member is not the first of the population.
C25_Witness ==
  /\ Len(evolution_history) = 2
  /\ current_generation = 2
  /\ evolution_history[2].min_score < evolution_history[2].max_score
  /\ evolution_history[2].min_score * evolution_history[2].avg_score.den
       < evolution_history[2].avg_score.num
  /\ evolution_history[2].best_prompt_id # population[1].id

\* C28: whenever a trace entry is recorded its max score is the run's best
\* score, and the object the best prompt was copied from is a member of the
\* population with that score; the recorded max scores never decrease from
\* one entry to the next.
C28_RecordedMaxIsBestScore ==
  /\ \A g \in 1..Len(evolution_history) :
       g > 1 => evolution_history[g - 1].max_score <= evolution_history[g].max_score
  /\ (pc \in {"select", "finish"} /\ evolution_history # <<>>) =>
       /\ evolution_history[Len(evolution_history)].max_score = best_score
       /\ \E k \in 1..Len(population) : population[k].score = best_score
       /\ best_prompt # NoPrompt =>
            \E k \in 1..Len(population) :
              /\ population[k].oid = best_prompt[1].oid
              /\ population[k].score = best_score

\* Three entries: the best score rose in the second generation and was kept,
\* by the elite member alone, in the third.
C28_Witness ==
  /\ Len(evolution_history) = 3
  /\ pc = "finish"
  /\ evolution_history[1].max_score < evolution_history[2].max_score
  /\ evolution_history[3].max_score = evolution_history[2].max_score
  /\ population[1].score = best_score
  /\ \A k \in 2..Len(population) : population[k].score < best_score
  /\ Len(population) >= 2

\* C29: in the results evolve() returns, the improvement is the best score
\* minus the mean of the first recorded generation and is not negative, the
\* final score is the best score, and the number of generations reported is
\* the configured maximum, one trace entry for each.
C29_ResultsOfARun ==
  pc = "returned" =>
    /\ results # NoPrompt
    /\ evolution_history # <<>>
    /\ LET r == results[1]
           first == evolution_history[1].avg_score
       IN /\ r.improvement.den > 0
          /\ r.improvement.num * first.den =
               (best_score * first.den - first.num) * r.improvement.den
          /\ r.improvement.num >= 0
          /\ r.final_score = best_score
          /\ r.generations = max_iterations
          /\ r.generations = args.iterations
          /\ r.generations = Len(evolution_history)

\* A returned run of three generations whose best score is above the mean
\* and above the max of the first generation.
C29_Witness ==
  /\ pc = "returned"
  /\ results[1].generations = 3
  /\ results[1].improvement.num > 0
  /\ results[1].final_score > evolution_history[1].max_score
  /\ evolution_history[1].min_score < evolution_history[1].max_score

\* C30: with a population size of one, the population is always the one
\* object made for the first generation; every selection makes exactly one
\* child, which never joins a population and is never evaluated, and no
\* fresh member; and from an entry on whose score is not 0 all trace
\* entries report the same scores and the same best id.
C30_SingleMemberNeverReplaced ==
  (population_size = 1 /\ population # <<>>) =>
    /\ OidsOf(population) = <<1>>
    /\ Len(registry) = current_generation
    /\ registry[1].kind = "initial"
    /\ \A o \in 2..Len(registry) :
         /\ registry[o].kind = "offspring"
         /\ registry[o].parent = registry[1].id
         /\ registry[o].joined = 0
         /\ registry[o].evals = 0
    /\ current_generation > 1 => lastBuild = [elite |-> 1, offspring |-> 0, fresh |-> 0]
    /\ \A g \in 1..Len(evolution_history) : \A h \in g..Len(evolution_history) :
         evolution_history[g].max_score # 0 =>
           /\ evolution_history[h].max_score = evolution_history[g].max_score
           /\ evolution_history[h].min_score = evolution_history[g].max_score
           /\ evolution_history[h].avg_score.num
                = evolution_history[g].max_score * evolution_history[h].avg_score.den
           /\ evolution_history[h].best_prompt_id = evolution_history[g].best_prompt_id

\* Three generations of a population of one: two children were made and
\* dropped, and the three entries report the score of the first generation.
C30_Witness ==
  /\ population_size = 1
  /\ Len(evolution_history) = 3
  /\ Len(registry) = 3
  /\ evolution_history[1].max_score > 0
  /\ evolution_history[3].max_score = evolution_history[1].max_score
  /\ registry[1].evals = 1
  /\ registry[3].evals = 0

\* The first character that is not whitespace is "#".
HasHeading(t) ==
  \E i \in 1..Len(t) : t[i] = "#" /\ \A j \in 1..(i - 1) : t[j] \in Whitespace

\* pat occurs in t, letters compared without regard to case.
OccursFolded(t, pat) ==
  \E i \in 0..(Len(t) - Len(pat)) : \A k \in 1..Len(pat) : LowerChar(t[i + k]) = pat[k]

\* Three backticks in a row.
HasFence(t) ==
  \E i \in 1..(Len(t) - 2) : t[i] = Backtick /\ t[i + 1] = Backtick /\ t[i + 2] = Backtick

\* Two pairs of newlines that do not share a character.
HasTwoBreaks(t) ==
  \E i \in 1..Len(t) : \E j \in (i + 2)..(Len(t) - 1) :
    /\ t[i] = "\n" /\ t[i + 1] = "\n"
    /\ t[j] = "\n" /\ t[j + 1] = "\n"

HasIndicator(t) == \E ind \in instruction_indicators : OccursFolded(t, ind)

\* C26: with the jitter 0, the simulated score of a text is 0.5, plus 0.05
\* for a leading heading, 0.10 for an instruction indicator, 0.10 for the
\* word example or a fenced block, 0.05 for at least two blank-line breaks
\* and 0.02 for each distinct configuration phrase, clamped to [0, 1]; a
\* text with a heading, an instruction indicator and a fenced block scores
\* at least 0.75.
C26_ScoreIsFunctionOfText ==
  (pc = "simulated" /\ sim_call.jitter = 0) =>
    LET t == sim_call.prompt
        expected ==
          500 + (IF HasHeading(t) THEN 50 ELSE 0)
              + (IF HasIndicator(t) THEN 100 ELSE 0)
              + (IF OccursFolded(t, ExampleWord) \/ HasFence(t) THEN 100 ELSE 0)
              + (IF HasTwoBreaks(t) THEN 50 ELSE 0)
              + 20 * Cardinality({opt \in config_options : OccursFolded(t, opt)})
    IN /\ sim_result.score =
            (IF expected > 1000 THEN 1000 ELSE IF expected < 0 THEN 0 ELSE expected)
       /\ (HasHeading(t) /\ HasIndicator(t) /\ HasFence(t)) => sim_result.score >= 750

\* "#Please" followed by a fenced block, evaluated with the jitter 0: 0.75.
C26_Witness ==
  /\ pc = "simulated"
  /\ sim_call.jitter = 0
  /\ HasHeading(sim_call.prompt)
  /\ HasIndicator(sim_call.prompt)
  /\ HasFence(sim_call.prompt)
  /\ ~Contains(sim_call.prompt, <<"p", "l", "e", "a", "s", "e">>)
  /\ sim_result.score = 750

\* C27: the simulated score is base 0.5 plus bonuses of at most 0.38 plus
\* the jitter, so it lies between 0.40 and 0.98, the clamp leaves it as it
\* is and it is never 0; and while every score stored in a run has come
\* from the simulated evaluator, no object has been evaluated twice and the
\* best prompt is set as soon as one evaluation has been made.
C27_SimulatedScoreNeverZero ==
  /\ pc = "simulated" =>
       /\ sim_result.raw - sim_call.jitter - 500 \in 0..380
       /\ sim_call.jitter \in -100..100
       /\ 400 <= sim_result.raw /\ sim_result.raw <= 980
       /\ sim_result.score = sim_result.raw
       /\ sim_result.score # 0
  /\ scoredBy \subseteq {"simulated"} =>
       /\ \A o \in 1..Len(registry) : registry[o].evals <= 1
       /\ (\E o \in 1..Len(registry) : registry[o].evals = 1) =>
            /\ best_prompt # NoPrompt
            /\ best_score >= 400

\* The text with every feature evaluated with the largest jitter: 0.98.
C27_Witness ==
  /\ pc = "simulated"
  /\ sim_call.jitter = 100
  /\ HasHeading(sim_call.prompt)
  /\ HasTwoBreaks(sim_call.prompt)
  /\ sim_result.raw = 980
  /\ sim_result.score = 980

====
